---- MODULE Spec2Model ----
(***************************************************************************)
(* Model of enterprise_gateway/enterprisegatewayapp.py:                   *)
(* EnterpriseGatewayApp's initialization sequence (init_configurables,    *)
(* init_webapp), its start()/stop()/_signal_stop() lifecycle around the    *)
(* Tornado event loop, and the defaulting functions of its tunables.       *)
(*                                                                         *)
(* Python's None is modelled, for an optional value, as the empty set and  *)
(* a present value v as the singleton {v}.                                 *)
(***************************************************************************)
EXTENDS Integers, Sequences, FiniteSets, TLC

\* ---- bounds of the model ------------------------------------------------
MaxSessions == 2
MaxConfig == 2
MaxStopCalls == 2
MaxHangups == 1
MaxInterrupts == 1
MaxLen == 3
MaxBoolLen == 4
MaxQuota == 2
MaxRequests == 3
MaxPort == 5

VARIABLES
    pc,                     \* position of the main thread in launch_instance
    error,                  \* the step whose exception ended the process ("" if none)
    prespawn_count,         \* self.prespawn_count  (optional int)
    max_kernels,            \* self.max_kernels     (optional int)
    has_culler,             \* kernel manager class offers initialize_culler
    persisted,              \* persisted session records: persisted[i] = remote process reachable
    kernel_spec_manager,    \* self.kernel_spec_manager
    kernel_manager,         \* self.kernel_manager
    session_manager,        \* self.session_manager
    kernel_session_manager, \* self.kernel_session_manager
    sessions_started,       \* start_sessions() has returned
    restored,               \* records re-attached by start_sessions()
    dropped,                \* records dropped by start_sessions()
    validated,              \* the prespawn/max_kernels check has passed
    personality,            \* self.personality
    personality_inited,     \* personality.init_configurables() has returned
    web_app,                \* self.web_app
    http_server,            \* self.http_server: "none", "listening", "stopped"
    io_loop,                \* self.io_loop: {} or {[running, stopped]}
    callbacks,              \* io_loop's queue of callbacks
    ncallbacks,             \* callbacks left to run in the current iteration
    sighup,                 \* disposition of SIGHUP: "default", "ignore"
    sigterm,                \* disposition of SIGTERM: "default", "_signal_stop"
    sigint,                 \* disposition of SIGINT: "default" (KeyboardInterrupt), "ignore"
    warnings,               \* warnings logged
    stop_calls,             \* number of stop() invocations
    http_stops,             \* number of http_server.stop() invocations
    loop_stops,             \* number of io_loop.stop() invocations made by _stop callbacks
    stop_cause,             \* what first asked the loop to stop: "", "stop", "sigterm"
    hangups,                \* number of SIGHUP deliveries
    shutdowns,              \* number of shutdown() invocations
    swallowed,              \* number of SIGINT deliveries ignored
    impersonation_enabled,  \* self.impersonation_enabled
    gateway_user,           \* getpass.getuser(): the identity of the gateway process
    unauthorized_users,     \* self.unauthorized_users (deny set)
    authorized_users,       \* self.authorized_users (allow set)
    decision,               \* the last authorization decision (optional)
    max_kernels_per_user,   \* self.max_kernels_per_user
    ledger,                 \* active kernels per user
    requests,               \* launch requests: their user and state
    port_lower,             \* lower bound of self.port_range
    port_upper,             \* upper bound of self.port_range
    port_check,             \* startup check of the range: "unchecked", "ok", "rejected"
    port,                   \* the last port selected (optional)
    setting,                \* tunable being resolved
    override,               \* explicit configuration of the tunable (optional)
    env,                    \* value of the tunable's environment variable (optional string)
    resolved,               \* the tunable's resolved value
    resolve_done            \* the tunable has been resolved

init_vars == <<error, prespawn_count, max_kernels, has_culler, persisted,
               kernel_spec_manager, kernel_manager, session_manager,
               kernel_session_manager, sessions_started, restored, dropped,
               validated, personality, personality_inited, web_app>>
loop_vars == <<http_server, io_loop, callbacks, ncallbacks, sighup, sigterm, sigint,
               stop_calls, http_stops, loop_stops, stop_cause, hangups,
               shutdowns, swallowed>>
policy_vars == <<impersonation_enabled, gateway_user, unauthorized_users,
                 authorized_users, decision, max_kernels_per_user, ledger, requests,
                 port_lower, port_upper, port_check, port>>
tunable_vars == <<setting, override, env, resolved, resolve_done>>
config_vars == <<tunable_vars, policy_vars>>
vars == <<pc, init_vars, loop_vars, warnings, config_vars>>

\* ---- helpers --------------------------------------------------------------
None == {}
Some(v) == {v}
Val(o) == CHOOSE v \in o : TRUE

\* Python truthiness of an optional int: None and 0 are falsy.
Truthy(o) == o # None /\ o # Some(0)

OptInts == {None} \cup {Some(n) : n \in 0..MaxConfig}

SeqsUpTo(S, n) == UNION {[1..k -> S] : k \in 0..n}

\* ---- initial state ------------------------------------------------------
GatewayUsers == {"root", "Root", "alice"}
KernelUsers == {"bob", "alice"}

\* line 163: -1 disables the per-user limit.
max_kernels_per_user_default_value == -1

\* The policy settings at their defaults (lines 112, 123, 135, 150, 163), no
\* launch request made, no port selected.
PolicyIdle ==
    /\ impersonation_enabled = FALSE
    /\ gateway_user = "alice"
    /\ unauthorized_users = {"root"}
    /\ authorized_users = {}
    /\ decision = None
    /\ max_kernels_per_user = max_kernels_per_user_default_value
    /\ ledger = [u \in KernelUsers |-> 0]
    /\ requests = <<>>
    /\ port_lower = 0
    /\ port_upper = 0
    /\ port_check = "unchecked"
    /\ port = None

\* No tunable is being read.
TunablesIdle ==
    /\ setting = "remote_hosts"
    /\ override = None
    /\ env = None
    /\ resolved = <<>>
    /\ resolve_done = FALSE

\* The tunables and the policy are idle while the lifecycle runs.
ConfigIdle == TunablesIdle /\ PolicyIdle

\* The application object before initialize(): nothing constructed, default
\* signal dispositions, no listener, no event loop.
Unconstructed ==
    /\ pc = "init_configurables"
    /\ error = ""
    /\ kernel_spec_manager = None
    /\ kernel_manager = None
    /\ session_manager = None
    /\ kernel_session_manager = None
    /\ sessions_started = FALSE
    /\ restored = {}
    /\ dropped = {}
    /\ validated = FALSE
    /\ personality = None
    /\ personality_inited = FALSE
    /\ web_app = None
    /\ http_server = "none"
    /\ io_loop = None
    /\ callbacks = <<>>
    /\ ncallbacks = 0
    /\ sighup = "default"
    /\ sigterm = "default"
    /\ sigint = "default"
    /\ warnings = {}
    /\ stop_calls = 0
    /\ http_stops = 0
    /\ loop_stops = 0
    /\ stop_cause = ""
    /\ hangups = 0
    /\ shutdowns = 0
    /\ swallowed = 0

Init ==
    /\ Unconstructed
    /\ prespawn_count \in OptInts
    /\ max_kernels \in OptInts
    /\ has_culler \in BOOLEAN
    /\ persisted \in SeqsUpTo(BOOLEAN, MaxSessions)
    /\ ConfigIdle

\* ---- init_configurables -------------------------------------------------
\* An exception raised by a step propagates out of initialize(): the process
\* ends and start() is never called.
Raise(step) ==
    /\ pc' = "failed"
    /\ error' = step

\* lines 225-240: the kernel spec manager (spec catalog); seed notebook and
\* default kernel name are read on the way.
InitKernelSpecManager ==
    /\ pc = "init_configurables"
    /\ \E ok \in BOOLEAN :
         IF ok
         THEN /\ kernel_spec_manager' = Some("KernelSpecManager")
              /\ pc' = "kernel_manager"
              /\ UNCHANGED error
         ELSE /\ Raise("kernel_spec_manager")
              /\ UNCHANGED kernel_spec_manager
    /\ UNCHANGED <<prespawn_count, max_kernels, has_culler, persisted, kernel_manager,
                   session_manager, kernel_session_manager, sessions_started, restored,
                   dropped, validated, personality, personality_inited, web_app>>
    /\ UNCHANGED <<loop_vars, warnings, config_vars>>

\* lines 242-248: the kernel manager, constructed over the kernel spec manager.
InitKernelManager ==
    /\ pc = "kernel_manager"
    /\ \E ok \in BOOLEAN :
         IF ok
         THEN /\ kernel_manager' = Some([kernel_spec_manager |-> kernel_spec_manager,
                                         initialize_culler |-> has_culler])
              /\ pc' = "detect_culler"
              /\ UNCHANGED error
         ELSE /\ Raise("kernel_manager")
              /\ UNCHANGED kernel_manager
    /\ UNCHANGED <<prespawn_count, max_kernels, has_culler, persisted, kernel_spec_manager,
                   session_manager, kernel_session_manager, sessions_started, restored,
                   dropped, validated, personality, personality_inited, web_app>>
    /\ UNCHANGED <<loop_vars, warnings, config_vars>>

\* Mutant of DetectCuller: a kernel manager without initialize_culler is fatal.
DetectCuller_fatal ==
    /\ pc = "detect_culler"
    /\ IF Val(kernel_manager).initialize_culler
       THEN /\ pc' = "session_manager"
            /\ UNCHANGED error
       ELSE Raise("detect_culler")
    /\ UNCHANGED <<prespawn_count, max_kernels, has_culler, persisted, kernel_spec_manager,
                   kernel_manager, session_manager, kernel_session_manager,
                   sessions_started, restored, dropped, validated, personality,
                   personality_inited, web_app>>
    /\ UNCHANGED <<loop_vars, warnings, config_vars>>

\* lines 250-254: an older notebook has no initialize_culler; only a warning.
DetectCuller ==
    /\ pc = "detect_culler"
    /\ warnings' = IF Val(kernel_manager).initialize_culler
                   THEN warnings
                   ELSE warnings \cup {"no_culling"}
    /\ pc' = "session_manager"
    /\ UNCHANGED <<init_vars, loop_vars, config_vars>>

\* lines 256-259: the notebook session manager over the kernel manager.
InitSessionManager ==
    /\ pc = "session_manager"
    /\ \E ok \in BOOLEAN :
         IF ok
         THEN /\ session_manager' = Some([kernel_manager |-> kernel_manager])
              /\ pc' = "kernel_session_manager"
              /\ UNCHANGED error
         ELSE /\ Raise("session_manager")
              /\ UNCHANGED session_manager
    /\ UNCHANGED <<prespawn_count, max_kernels, has_culler, persisted, kernel_spec_manager,
                   kernel_manager, kernel_session_manager, sessions_started, restored,
                   dropped, validated, personality, personality_inited, web_app>>
    /\ UNCHANGED <<loop_vars, warnings, config_vars>>

\* lines 261-267: the kernel session manager (session registry) over the
\* kernel manager.
InitKernelSessionManager ==
    /\ pc = "kernel_session_manager"
    /\ \E ok \in BOOLEAN :
         IF ok
         THEN /\ kernel_session_manager' = Some([kernel_manager |-> kernel_manager])
              /\ pc' = "start_sessions"
              /\ UNCHANGED error
         ELSE /\ Raise("kernel_session_manager")
              /\ UNCHANGED kernel_session_manager
    /\ UNCHANGED <<prespawn_count, max_kernels, has_culler, persisted, kernel_spec_manager,
                   kernel_manager, session_manager, sessions_started, restored,
                   dropped, validated, personality, personality_inited, web_app>>
    /\ UNCHANGED <<loop_vars, warnings, config_vars>>

\* Mutant of Recover: every record is re-attached without probing its process.
RECURSIVE Recover_unprobed(_, _, _)
Recover_unprobed(records, i, acc) ==
    IF i > Len(records) THEN acc
    ELSE Recover_unprobed(records, i + 1, [acc EXCEPT !.restored = @ \cup {i}])

\* KernelSessionManager.start_sessions(): every persisted record is tried in
\* turn; a record whose remote process answers is re-attached, one whose
\* process is unreachable is logged and dropped.
RECURSIVE Recover(_, _, _)
Recover(records, i, acc) ==
    IF i > Len(records) THEN acc
    ELSE Recover(records, i + 1,
                 IF records[i]
                 THEN [acc EXCEPT !.restored = @ \cup {i}]
                 ELSE [acc EXCEPT !.dropped = @ \cup {i}])

\* Mutant of StartSessions: the call to start_sessions() is left out.
StartSessions_skipped ==
    /\ pc = "start_sessions"
    /\ pc' = "validate"
    /\ UNCHANGED <<init_vars, loop_vars, warnings, config_vars>>

\* lines 269-270: attempt to start persisted sessions.
StartSessions ==
    /\ pc = "start_sessions"
    /\ LET r == Recover(persisted, 1, [restored |-> {}, dropped |-> {}])
       IN /\ restored' = r.restored
          /\ dropped' = r.dropped
    /\ sessions_started' = TRUE
    /\ pc' = "validate"
    /\ UNCHANGED <<error, prespawn_count, max_kernels, has_culler, persisted,
                   kernel_spec_manager, kernel_manager, session_manager,
                   kernel_session_manager, validated, personality, personality_inited,
                   web_app>>
    /\ UNCHANGED <<loop_vars, warnings, config_vars>>

\* lines 274-275: the condition under which the prespawn check raises.
PrespawnRejected ==
    /\ Truthy(prespawn_count)
    /\ Truthy(max_kernels)
    /\ Val(prespawn_count) > Val(max_kernels)

\* Mutant of ValidatePrespawn: the check runs ahead of start_sessions().
ValidatePrespawn_first ==
    /\ pc = "start_sessions"
    /\ IF PrespawnRejected
       THEN /\ Raise("prespawn")
            /\ UNCHANGED validated
       ELSE /\ validated' = TRUE
            /\ pc' = "personality"
            /\ UNCHANGED error
    /\ UNCHANGED <<prespawn_count, max_kernels, has_culler, persisted, kernel_spec_manager,
                   kernel_manager, session_manager, kernel_session_manager,
                   sessions_started, restored, dropped, personality, personality_inited,
                   web_app>>
    /\ UNCHANGED <<loop_vars, warnings, config_vars>>

\* lines 272-278: prespawn_count is checked against max_kernels.
ValidatePrespawn ==
    /\ pc = "validate"
    /\ IF PrespawnRejected
       THEN /\ Raise("prespawn")
            /\ UNCHANGED validated
       ELSE /\ validated' = TRUE
            /\ pc' = "personality"
            /\ UNCHANGED error
    /\ UNCHANGED <<prespawn_count, max_kernels, has_culler, persisted, kernel_spec_manager,
                   kernel_manager, session_manager, kernel_session_manager,
                   sessions_started, restored, dropped, personality, personality_inited,
                   web_app>>
    /\ UNCHANGED <<loop_vars, warnings, config_vars>>

\* Mutant of CreatePersonality: the personality is created right after the
\* kernel session manager, ahead of session recovery and validation.
CreatePersonality_early ==
    /\ pc = "start_sessions"
    /\ personality' = Some("personality")
    /\ pc' = "personality_init"
    /\ UNCHANGED <<error, prespawn_count, max_kernels, has_culler, persisted,
                   kernel_spec_manager, kernel_manager, session_manager,
                   kernel_session_manager, sessions_started, restored, dropped,
                   validated, personality_inited, web_app>>
    /\ UNCHANGED <<loop_vars, warnings, config_vars>>

\* lines 280-282: the api module is loaded and its personality created.
CreatePersonality ==
    /\ pc = "personality"
    /\ \E ok \in BOOLEAN :
         IF ok
         THEN /\ personality' = Some("personality")
              /\ pc' = "personality_init"
              /\ UNCHANGED error
         ELSE /\ Raise("personality")
              /\ UNCHANGED personality
    /\ UNCHANGED <<prespawn_count, max_kernels, has_culler, persisted, kernel_spec_manager,
                   kernel_manager, session_manager, kernel_session_manager,
                   sessions_started, restored, dropped, validated, personality_inited,
                   web_app>>
    /\ UNCHANGED <<loop_vars, warnings, config_vars>>

\* Mutant of PersonalityInitConfigurables: an exception of the hook is
\* swallowed and initialization goes on.
PersonalityInitConfigurables_swallowed ==
    /\ pc = "personality_init"
    /\ \E ok \in BOOLEAN : personality_inited' = ok
    /\ pc' = "init_webapp"
    /\ UNCHANGED <<error, prespawn_count, max_kernels, has_culler, persisted,
                   kernel_spec_manager, kernel_manager, session_manager,
                   kernel_session_manager, sessions_started, restored, dropped,
                   validated, personality, web_app>>
    /\ UNCHANGED <<loop_vars, warnings, config_vars>>

\* line 284: the personality's own init_configurables() hook.
PersonalityInitConfigurables ==
    /\ pc = "personality_init"
    /\ \E ok \in BOOLEAN :
         IF ok
         THEN /\ personality_inited' = TRUE
              /\ pc' = "init_webapp"
              /\ UNCHANGED error
         ELSE /\ Raise("personality_init")
              /\ UNCHANGED personality_inited
    /\ UNCHANGED <<prespawn_count, max_kernels, has_culler, persisted, kernel_spec_manager,
                   kernel_manager, session_manager, kernel_session_manager,
                   sessions_started, restored, dropped, validated, personality, web_app>>
    /\ UNCHANGED <<loop_vars, warnings, config_vars>>

\* lines 286-297: the Tornado web application and its settings.
init_webapp ==
    /\ pc = "init_webapp"
    /\ \E ok \in BOOLEAN :
         IF ok
         THEN /\ web_app' = Some([allow_remote_access |-> TRUE])
              /\ pc' = "init_http_server"
              /\ UNCHANGED error
         ELSE /\ Raise("init_webapp")
              /\ UNCHANGED web_app
    /\ UNCHANGED <<prespawn_count, max_kernels, has_culler, persisted, kernel_spec_manager,
                   kernel_manager, session_manager, kernel_session_manager,
                   sessions_started, restored, dropped, validated, personality,
                   personality_inited>>
    /\ UNCHANGED <<loop_vars, warnings, config_vars>>

\* "creates a Tornado HTTP server": the listener is opened after the web
\* application is built and before start().
init_http_server ==
    /\ pc = "init_http_server"
    /\ \E ok \in BOOLEAN :
         IF ok
         THEN /\ http_server' = "listening"
              /\ pc' = "start"
              /\ UNCHANGED error
         ELSE /\ Raise("init_http_server")
              /\ UNCHANGED http_server
    /\ UNCHANGED <<prespawn_count, max_kernels, has_culler, persisted, kernel_spec_manager,
                   kernel_manager, session_manager, kernel_session_manager,
                   sessions_started, restored, dropped, validated, personality,
                   personality_inited, web_app>>
    /\ UNCHANGED <<io_loop, callbacks, ncallbacks, sighup, sigterm, sigint, stop_calls,
                   http_stops, loop_stops, stop_cause, hangups, shutdowns, swallowed>>
    /\ UNCHANGED <<warnings, config_vars>>

\* ---- start(), the event loop, stop() and the signal handlers --------------
\* str.lower() on the user names of the model.
Lower(u) == IF u = "Root" THEN "root" ELSE u

\* io_loop.stop(): the loop is asked to leave after the current iteration.
LoopStop(loop) == Some([running |-> FALSE, stopped |-> TRUE])

\* Mutant of start: SIGHUP keeps its default disposition.
start_hangup_default ==
    /\ pc = "start"
    /\ warnings' = IF impersonation_enabled /\ Lower(gateway_user) \notin unauthorized_users
                   THEN warnings \cup {"impersonation"}
                   ELSE warnings
    /\ io_loop' = Some([running |-> FALSE, stopped |-> FALSE])
    /\ sigterm' = "_signal_stop"
    /\ pc' = "io_loop_start"
    /\ UNCHANGED <<http_server, callbacks, ncallbacks, sighup, sigint, stop_calls, http_stops,
                   loop_stops, stop_cause, hangups, shutdowns, swallowed>>
    /\ UNCHANGED <<init_vars, config_vars>>

\* lines 299-321: the superclass start, the availability message, the
\* impersonation warning, the current IOLoop, and the signal dispositions.
start ==
    /\ pc = "start"
    /\ warnings' = IF impersonation_enabled /\ Lower(gateway_user) \notin unauthorized_users
                   THEN warnings \cup {"impersonation"}
                   ELSE warnings
    /\ io_loop' = Some([running |-> FALSE, stopped |-> FALSE])
    /\ sighup' = "ignore"
    /\ sigterm' = "_signal_stop"
    /\ pc' = "io_loop_start"
    /\ UNCHANGED <<http_server, callbacks, ncallbacks, sigint, stop_calls, http_stops,
                   loop_stops, stop_cause, hangups, shutdowns, swallowed>>
    /\ UNCHANGED <<init_vars, config_vars>>

\* Mutant of io_loop_start: the loop runs although it was asked to stop.
io_loop_start_ignores_stop ==
    /\ pc = "io_loop_start"
    /\ io_loop' = Some([running |-> TRUE, stopped |-> FALSE])
    /\ pc' = "loop_poll"
    /\ UNCHANGED <<http_server, callbacks, ncallbacks, sighup, sigterm, sigint, stop_calls,
                   http_stops, loop_stops, stop_cause, hangups, shutdowns, swallowed>>
    /\ UNCHANGED <<init_vars, warnings, config_vars>>

\* lines 323-324: io_loop.start(). A loop already asked to stop returns at
\* once; otherwise it runs until asked to stop.
io_loop_start ==
    /\ pc = "io_loop_start"
    /\ IF Val(io_loop).stopped
       THEN /\ io_loop' = Some([Val(io_loop) EXCEPT !.stopped = FALSE])
            /\ pc' = "finally"
       ELSE /\ io_loop' = Some([Val(io_loop) EXCEPT !.running = TRUE])
            /\ pc' = "loop_poll"
    /\ UNCHANGED <<http_server, callbacks, ncallbacks, sighup, sigterm, sigint, stop_calls,
                   http_stops, loop_stops, stop_cause, hangups, shutdowns, swallowed>>
    /\ UNCHANGED <<init_vars, warnings, config_vars>>

\* line 324: an iteration of the running loop takes the callbacks queued so far.
LoopBeginIteration ==
    /\ pc = "loop_poll"
    /\ ncallbacks' = Len(callbacks)
    /\ pc' = "loop_callbacks"
    /\ UNCHANGED <<http_server, io_loop, callbacks, sighup, sigterm, sigint, stop_calls,
                   http_stops, loop_stops, stop_cause, hangups, shutdowns, swallowed>>
    /\ UNCHANGED <<init_vars, warnings, config_vars>>

\* Mutant of LoopRunCallback: _stop() forgets http_server.stop().
LoopRunCallback_loop_only ==
    /\ pc = "loop_callbacks"
    /\ ncallbacks > 0
    /\ callbacks' = Tail(callbacks)
    /\ ncallbacks' = ncallbacks - 1
    /\ io_loop' = LoopStop(io_loop)
    /\ loop_stops' = loop_stops + 1
    /\ stop_cause' = IF stop_cause = "" THEN "stop" ELSE stop_cause
    /\ UNCHANGED <<pc, http_server, http_stops, sighup, sigterm, sigint, stop_calls,
                   hangups, shutdowns, swallowed>>
    /\ UNCHANGED <<init_vars, warnings, config_vars>>

\* lines 337-339: the loop runs a queued _stop callback: the HTTP server is
\* stopped, then the loop is asked to stop.
LoopRunCallback ==
    /\ pc = "loop_callbacks"
    /\ ncallbacks > 0
    /\ callbacks' = Tail(callbacks)
    /\ ncallbacks' = ncallbacks - 1
    /\ http_server' = "stopped"
    /\ http_stops' = http_stops + 1
    /\ io_loop' = LoopStop(io_loop)
    /\ loop_stops' = loop_stops + 1
    /\ stop_cause' = IF stop_cause = "" THEN "stop" ELSE stop_cause
    /\ UNCHANGED <<pc, sighup, sigterm, sigint, stop_calls, hangups, shutdowns, swallowed>>
    /\ UNCHANGED <<init_vars, warnings, config_vars>>

\* line 324: after the iteration's callbacks the loop leaves if it was asked
\* to stop, and polls again otherwise.
LoopEndIteration ==
    /\ pc = "loop_callbacks"
    /\ ncallbacks = 0
    /\ IF Val(io_loop).running
       THEN /\ pc' = "loop_poll"
            /\ UNCHANGED io_loop
       ELSE /\ pc' = "finally"
            /\ io_loop' = Some([Val(io_loop) EXCEPT !.stopped = FALSE])
    /\ UNCHANGED <<http_server, callbacks, ncallbacks, sighup, sigterm, sigint, stop_calls,
                   http_stops, loop_stops, stop_cause, hangups, shutdowns, swallowed>>
    /\ UNCHANGED <<init_vars, warnings, config_vars>>

\* The main thread is inside the try block of start().
InTry == pc \in {"io_loop_start", "loop_poll", "loop_callbacks"}

\* The process is alive and start() has installed its handlers.
Started == pc \in {"io_loop_start", "loop_poll", "loop_callbacks", "except", "finally",
                   "shutdown"}

\* lines 332-341: stop() queues one _stop callback on the loop, whether or not
\* the loop will run again.
stop ==
    /\ Started \/ pc = "done"
    /\ stop_calls < MaxStopCalls
    /\ callbacks' = Append(callbacks, "_stop")
    /\ stop_calls' = stop_calls + 1
    /\ UNCHANGED <<pc, http_server, io_loop, ncallbacks, sighup, sigterm, sigint,
                   http_stops, loop_stops, stop_cause, hangups, shutdowns, swallowed>>
    /\ UNCHANGED <<init_vars, warnings, config_vars>>

\* lines 343-345: SIGTERM is delivered; the handler logs and stops the loop.
_signal_stop ==
    /\ Started
    /\ sigterm = "_signal_stop"
    /\ io_loop' = LoopStop(io_loop)
    /\ stop_cause' = IF stop_cause = "" THEN "sigterm" ELSE stop_cause
    /\ UNCHANGED <<pc, http_server, callbacks, ncallbacks, sighup, sigterm, sigint,
                   stop_calls, http_stops, loop_stops, hangups, shutdowns, swallowed>>
    /\ UNCHANGED <<init_vars, warnings, config_vars>>

\* line 319: SIGHUP is delivered to the live process. Ignored once start() has
\* set SIG_IGN; under the default disposition it terminates the process.
SigHup ==
    /\ pc \notin {"done", "failed", "killed"}
    /\ hangups < MaxHangups
    /\ hangups' = hangups + 1
    /\ pc' = IF sighup = "ignore" THEN pc ELSE "killed"
    /\ UNCHANGED <<http_server, io_loop, callbacks, ncallbacks, sighup, sigterm,
                   sigint, stop_calls, http_stops, loop_stops, stop_cause, shutdowns,
                   swallowed>>
    /\ UNCHANGED <<init_vars, warnings, config_vars>>

\* lines 323-330: SIGINT is delivered. Under the default disposition it raises
\* KeyboardInterrupt in the main thread: caught inside the try block; inside the
\* except block before the disposition is changed it propagates once the
\* finally block has run; in the finally block it is fatal. Once ignored it
\* does nothing.
SigInt ==
    /\ Started
    /\ IF sigint = "ignore"
       THEN /\ swallowed < MaxInterrupts
            /\ swallowed' = swallowed + 1
            /\ UNCHANGED <<pc, error, io_loop>>
       ELSE /\ UNCHANGED swallowed
            /\ IF InTry
               THEN /\ pc' = "except"
                    /\ io_loop' = Some([Val(io_loop) EXCEPT !.stopped = FALSE])
                    /\ UNCHANGED error
               ELSE IF pc = "except"
                    THEN /\ pc' = "finally"
                         /\ error' = "KeyboardInterrupt"
                         /\ UNCHANGED io_loop
                    ELSE /\ Raise("KeyboardInterrupt")
                         /\ UNCHANGED io_loop
    /\ UNCHANGED <<prespawn_count, max_kernels, has_culler, persisted, kernel_spec_manager,
                   kernel_manager, session_manager, kernel_session_manager,
                   sessions_started, restored, dropped, validated, personality,
                   personality_inited, web_app>>
    /\ UNCHANGED <<http_server, callbacks, ncallbacks, sighup, sigterm, sigint, stop_calls,
                   http_stops, loop_stops, stop_cause, hangups, shutdowns>>
    /\ UNCHANGED <<warnings, config_vars>>

\* lines 323-324: io_loop.start() raises an exception other than
\* KeyboardInterrupt; no except clause catches it.
LoopException ==
    /\ pc \in {"loop_poll", "loop_callbacks"}
    /\ pc' = "finally"
    /\ error' = "io_loop"
    /\ io_loop' = Some([running |-> FALSE, stopped |-> FALSE])
    /\ UNCHANGED <<prespawn_count, max_kernels, has_culler, persisted, kernel_spec_manager,
                   kernel_manager, session_manager, kernel_session_manager,
                   sessions_started, restored, dropped, validated, personality,
                   personality_inited, web_app>>
    /\ UNCHANGED <<http_server, callbacks, ncallbacks, sighup, sigterm, sigint, stop_calls,
                   http_stops, loop_stops, stop_cause, hangups, shutdowns, swallowed>>
    /\ UNCHANGED <<warnings, config_vars>>

\* Mutant of ExceptKeyboardInterrupt: the interrupt is logged, SIGINT keeps
\* its disposition.
ExceptKeyboardInterrupt_not_rearmed ==
    /\ pc = "except"
    /\ warnings' = warnings \cup {"Interrupted"}
    /\ pc' = "finally"
    /\ UNCHANGED <<http_server, io_loop, callbacks, ncallbacks, sighup, sigterm, sigint,
                   stop_calls, http_stops, loop_stops, stop_cause, hangups, shutdowns,
                   swallowed>>
    /\ UNCHANGED <<init_vars, config_vars>>

\* lines 325-328: the interrupt is logged and further interrupts are ignored.
ExceptKeyboardInterrupt ==
    /\ pc = "except"
    /\ warnings' = warnings \cup {"Interrupted"}
    /\ sigint' = "ignore"
    /\ pc' = "finally"
    /\ UNCHANGED <<http_server, io_loop, callbacks, ncallbacks, sighup, sigterm,
                   stop_calls, http_stops, loop_stops, stop_cause, hangups, shutdowns,
                   swallowed>>
    /\ UNCHANGED <<init_vars, config_vars>>

\* lines 329-330: the finally block calls shutdown().
shutdown ==
    /\ pc = "finally"
    /\ shutdowns' = shutdowns + 1
    /\ pc' = "shutdown"
    /\ UNCHANGED <<http_server, io_loop, callbacks, ncallbacks, sighup, sigterm, sigint,
                   stop_calls, http_stops, loop_stops, stop_cause, hangups, swallowed>>
    /\ UNCHANGED <<init_vars, warnings, config_vars>>

\* line 330: shutdown() returns and start() with it, or the exception that left
\* the try block propagates.
ShutdownReturn ==
    /\ pc = "shutdown"
    /\ pc' = IF error = "" THEN "done" ELSE "failed"
    /\ UNCHANGED <<init_vars, loop_vars, warnings, config_vars>>

\* ---- the lifecycle ----------------------------------------------------------
Next ==
    \/ InitKernelSpecManager
    \/ InitKernelManager
    \/ DetectCuller
    \/ InitSessionManager
    \/ InitKernelSessionManager
    \/ StartSessions
    \/ ValidatePrespawn
    \/ CreatePersonality
    \/ PersonalityInitConfigurables
    \/ init_webapp
    \/ init_http_server
    \/ start
    \/ io_loop_start
    \/ LoopBeginIteration
    \/ LoopRunCallback
    \/ LoopEndIteration
    \/ stop
    \/ _signal_stop
    \/ SigHup
    \/ SigInt
    \/ LoopException
    \/ ExceptKeyboardInterrupt
    \/ shutdown
    \/ ShutdownReturn

Spec == Init /\ [][Next]_vars

\* The lifecycle under every impersonation setting, gateway user and deny set;
\* no prespawning, no persisted session, a kernel manager with a culler.
ImpersonationInit ==
    /\ Unconstructed
    /\ prespawn_count = None
    /\ max_kernels = None
    /\ has_culler = TRUE
    /\ persisted = <<>>
    /\ TunablesIdle
    /\ impersonation_enabled \in BOOLEAN
    /\ gateway_user \in GatewayUsers
    /\ unauthorized_users \in SUBSET GatewayUsers
    /\ authorized_users = {}
    /\ decision = None
    /\ max_kernels_per_user = max_kernels_per_user_default_value
    /\ ledger = [u \in KernelUsers |-> 0]
    /\ requests = <<>>
    /\ port_lower = 0
    /\ port_upper = 0
    /\ port_check = "unchecked"
    /\ port = None

SpecImpersonation == ImpersonationInit /\ [][Next]_vars

\* The event loop is running: the gateway accepts and handles traffic.
Serving == pc \in {"loop_poll", "loop_callbacks"}

\* lines 215-345: where the process is in its life. Nothing is constructed
\* before init_configurables; the gateway serves while the loop runs; a stop is
\* requested once the loop was asked to stop or the try block was left; the
\* process is stopped when start() has returned or an exception or a signal
\* has ended it.
LifecycleState ==
    IF pc \in {"done", "failed", "killed"} THEN "Stopped"
    ELSE IF pc \in {"except", "finally", "shutdown"} THEN "StopRequested"
    ELSE IF io_loop # None /\ Val(io_loop).stopped THEN "StopRequested"
    ELSE IF Serving THEN "Serving"
    ELSE IF pc = "init_configurables" THEN "Uninitialized"
    ELSE "Initializing"

\* ---- the tunables and their defaulting functions ---------------------------
\* A string is a sequence of characters.
Alphabet == {"a", "b", ","}
Strings == SeqsUpTo(Alphabet, MaxLen)
OptStrings == {None} \cup {Some(str) : str \in Strings}

\* os.getenv(key, default): the variable's value when it is set, else default.
getenv(value, default) == IF value # None THEN Val(value) ELSE default

\* Index of the first comma of str, 0 when it has none.
FirstComma(str) ==
    IF \E i \in 1..Len(str) : str[i] = ","
    THEN CHOOSE i \in 1..Len(str) : str[i] = "," /\ \A j \in 1..(i - 1) : str[j] # ","
    ELSE 0

\* str.split(','): the pieces between commas, in order; a string without a
\* comma, the empty string included, is its own single piece.
RECURSIVE split(_)
split(str) ==
    LET i == FirstComma(str)
    IN IF i = 0 THEN <<str>>
       ELSE <<SubSeq(str, 1, i - 1)>> \o split(SubSeq(str, i + 1, Len(str)))

Range(f) == {f[i] : i \in DOMAIN f}

\* line 47
remote_hosts_default_value == <<"l", "o", "c", "a", "l", "h", "o", "s", "t">>
\* line 122
unauthorized_users_default_value == <<"r", "o", "o", "t">>
\* line 150
port_range_default_value == <<"0", ".", ".", "0">>

\* lines 53-55
remote_hosts_default(value) == split(getenv(value, remote_hosts_default_value))

\* lines 64-66: None when the variable is not set.
yarn_endpoint_default(value) == value

\* lines 129-131
unauthorized_users_default(value) == split(getenv(value, unauthorized_users_default_value))

\* Mutant of authorized_users_default: the variable is tested for truth
\* instead of for None.
authorized_users_default_truthy(value) ==
    IF value # None /\ Val(value) # <<>> THEN split(Val(value)) ELSE <<>>

\* lines 143-146
authorized_users_default(value) ==
    IF value # None THEN split(Val(value)) ELSE <<>>

\* lines 157-159
port_range_default(value) == getenv(value, port_range_default_value)

Settings == {"remote_hosts", "yarn_endpoint", "unauthorized_users", "authorized_users",
             "port_range"}

\* The Set traits turn the list a defaulting function returns into a set.
SetTraits == {"unauthorized_users", "authorized_users"}

\* Explicit configurations tried for a tunable, by the type of its trait.
Overrides(name) ==
    CASE name = "remote_hosts" -> {None, Some(<<>>), Some(<< <<"b">>, <<"a">> >>)}
      [] name \in SetTraits -> {None, Some({}), Some({<<"b">>})}
      [] name = "yarn_endpoint" -> {None, Some(Some(<<"b">>))}
      [] OTHER -> {None, Some(<<>>), Some(<<"b">>)}

\* The value of a tunable: its explicit configuration when there is one, else
\* what its defaulting function makes of the environment.
Resolve(name, explicit, value) ==
    IF explicit # None THEN Val(explicit)
    ELSE CASE name = "remote_hosts" -> remote_hosts_default(value)
           [] name = "yarn_endpoint" -> yarn_endpoint_default(value)
           [] name = "unauthorized_users" -> Range(unauthorized_users_default(value))
           [] name = "authorized_users" -> Range(authorized_users_default(value))
           [] name = "port_range" -> port_range_default(value)

\* A tunable is read for the first time.
ResolveTunable ==
    /\ ~resolve_done
    /\ resolved' = Resolve(setting, override, env)
    /\ resolve_done' = TRUE
    /\ UNCHANGED <<pc, init_vars, loop_vars, warnings, setting, override, env, policy_vars>>

ResolveInit ==
    /\ Unconstructed
    /\ prespawn_count = None
    /\ max_kernels = None
    /\ has_culler = TRUE
    /\ persisted = <<>>
    /\ setting \in Settings
    /\ override \in Overrides(setting)
    /\ env \in OptStrings
    /\ resolved = <<>>
    /\ resolve_done = FALSE
    /\ PolicyIdle

ResolveNext == ResolveTunable

SpecResolve == ResolveInit /\ [][ResolveNext]_vars

\* ---- the boolean tunables -----------------------------------------------------
BoolAlphabet == {"t", "T", "r", "u", "e", "E", "0"}

\* line 118: the default of EG_IMPERSONATION_ENABLED
impersonation_enabled_default_value == <<"f", "a", "l", "s", "e">>

BoolStrings ==
    SeqsUpTo(BoolAlphabet, MaxBoolLen)
        \cup {impersonation_enabled_default_value, <<"F", "a", "l", "s", "e">>}

\* str.lower() on the characters of the model.
LowerChar(c) ==
    CASE c = "T" -> "t"
      [] c = "E" -> "e"
      [] c = "F" -> "f"
      [] OTHER -> c

lower(str) == [i \in DOMAIN str |-> LowerChar(str[i])]

\* lines 87-90: bool() of the variable's string when it is set (true for
\* every non-empty string), of the default False otherwise.
yarn_endpoint_security_enabled_default(value) ==
    IF value # None THEN Val(value) # <<>> ELSE FALSE

\* lines 116-118
impersonation_enabled_default(value) ==
    lower(getenv(value, impersonation_enabled_default_value)) = <<"t", "r", "u", "e">>

BoolSettings == {"yarn_endpoint_security_enabled", "impersonation_enabled"}

\* The value of a Bool trait: its explicit configuration when there is one,
\* else what its defaulting function makes of the environment.
ResolveBool(name, explicit, value) ==
    IF explicit # None THEN Val(explicit)
    ELSE CASE name = "yarn_endpoint_security_enabled" ->
                  yarn_endpoint_security_enabled_default(value)
           [] name = "impersonation_enabled" -> impersonation_enabled_default(value)

\* A boolean tunable is read for the first time.
ResolveBoolTunable ==
    /\ ~resolve_done
    /\ resolved' = ResolveBool(setting, override, env)
    /\ resolve_done' = TRUE
    /\ UNCHANGED <<pc, init_vars, loop_vars, warnings, setting, override, env, policy_vars>>

BoolInit ==
    /\ Unconstructed
    /\ prespawn_count = None
    /\ max_kernels = None
    /\ has_culler = TRUE
    /\ persisted = <<>>
    /\ setting \in BoolSettings
    /\ override \in {None, Some(TRUE), Some(FALSE)}
    /\ env \in {None} \cup {Some(str) : str \in BoolStrings}
    /\ resolved = FALSE
    /\ resolve_done = FALSE
    /\ PolicyIdle

BoolNext == ResolveBoolTunable

SpecBool == BoolInit /\ [][BoolNext]_vars

\* ---- authorization of a kernel launch ------------------------------------
\* lines 120-146 hold the two sets; the decision is taken where a kernel is
\* launched.
\* Mutant of Authorize: the allow set is consulted before the deny set.
Authorize_allow_first(deny, allow, user) ==
    IF allow # {} /\ user \in allow THEN "Accept"
    ELSE IF user \in deny THEN "Reject"
    ELSE IF allow # {} THEN "Reject"
    ELSE "Accept"

\* A user in the deny set is rejected; otherwise a user missing from a
\* non-empty allow set is rejected; anyone else is accepted.
Authorize(deny, allow, user) ==
    IF user \in deny THEN "Reject"
    ELSE IF allow # {} /\ user \notin allow THEN "Reject"
    ELSE "Accept"

\* One launch request is authorized; the sets are only read.
authorize ==
    /\ \E user \in GatewayUsers :
         decision' = Some([user |-> user,
                           result |-> Authorize(unauthorized_users, authorized_users, user)])
    /\ UNCHANGED <<impersonation_enabled, gateway_user, unauthorized_users,
                   authorized_users, max_kernels_per_user, ledger, requests,
                   port_lower, port_upper, port_check, port>>
    /\ UNCHANGED <<pc, init_vars, loop_vars, warnings, tunable_vars>>

\* Every deny set and allow set over the users of the model.
AuthInit ==
    /\ Unconstructed
    /\ prespawn_count = None
    /\ max_kernels = None
    /\ has_culler = TRUE
    /\ persisted = <<>>
    /\ TunablesIdle
    /\ impersonation_enabled = FALSE
    /\ gateway_user = "alice"
    /\ unauthorized_users \in SUBSET GatewayUsers
    /\ authorized_users \in SUBSET GatewayUsers
    /\ decision = None
    /\ max_kernels_per_user = max_kernels_per_user_default_value
    /\ ledger = [u \in KernelUsers |-> 0]
    /\ requests = <<>>
    /\ port_lower = 0
    /\ port_upper = 0
    /\ port_check = "unchecked"
    /\ port = None

AuthNext == authorize

SpecAuth == AuthInit /\ [][AuthNext]_vars

\* ---- the per-user kernel quota -------------------------------------------
\* lines 161-171 hold the limit; the check is made where a kernel is launched.
\* Mutant of Admits: the comparison admits one kernel too many.
Admits_off_by_one(count, max) == max = -1 \/ count <= max

\* A launch is admitted when enforcement is disabled (-1) or the user's count
\* of active kernels is below the limit.
Admits(count, max) == max = -1 \/ count < max

\* tryAcquire(user) for launch request r: check and increment in one step.
tryAcquire(r) ==
    /\ requests[r].state = "new"
    /\ IF Admits(ledger[requests[r].user], max_kernels_per_user)
       THEN /\ ledger' = [ledger EXCEPT ![requests[r].user] = @ + 1]
            /\ requests' = [requests EXCEPT ![r].state = "live"]
       ELSE /\ requests' = [requests EXCEPT ![r].state = "rejected"]
            /\ UNCHANGED ledger
    /\ UNCHANGED <<impersonation_enabled, gateway_user, unauthorized_users,
                   authorized_users, decision, max_kernels_per_user,
                   port_lower, port_upper, port_check, port>>
    /\ UNCHANGED <<pc, init_vars, loop_vars, warnings, tunable_vars>>

\* release(user) for launch request r, when its kernel terminates.
release(r) ==
    /\ requests[r].state = "live"
    /\ ledger' = [ledger EXCEPT ![requests[r].user] = @ - 1]
    /\ requests' = [requests EXCEPT ![r].state = "released"]
    /\ UNCHANGED <<impersonation_enabled, gateway_user, unauthorized_users,
                   authorized_users, decision, max_kernels_per_user,
                   port_lower, port_upper, port_check, port>>
    /\ UNCHANGED <<pc, init_vars, loop_vars, warnings, tunable_vars>>

\* Every limit from -1 to MaxQuota and every assignment of users to the
\* launch requests.
QuotaInit ==
    /\ Unconstructed
    /\ prespawn_count = None
    /\ max_kernels = None
    /\ has_culler = TRUE
    /\ persisted = <<>>
    /\ TunablesIdle
    /\ impersonation_enabled = FALSE
    /\ gateway_user = "alice"
    /\ unauthorized_users = {"root"}
    /\ authorized_users = {}
    /\ decision = None
    /\ max_kernels_per_user \in max_kernels_per_user_default_value..MaxQuota
    /\ ledger = [u \in KernelUsers |-> 0]
    /\ requests \in [1..MaxRequests -> [user : KernelUsers, state : {"new"}]]
    /\ port_lower = 0
    /\ port_upper = 0
    /\ port_check = "unchecked"
    /\ port = None

QuotaNext ==
    \/ \E r \in 1..MaxRequests : tryAcquire(r)
    \/ \E r \in 1..MaxRequests : release(r)

SpecQuota == QuotaInit /\ [][QuotaNext]_vars

\* ---- the port range ------------------------------------------------------
\* Mutant of PortRangeEnforced: only the range 0..0 disables enforcement.
PortRangeEnforced_unless_zero_zero(lo, hi) == ~(lo = 0 /\ hi = 0)

\* lines 152-155: "A range of zero (e.g., 33245..33245 or 0..0) disables
\* port-range enforcement"; 33245..34245 is a range of 1000 ports.
PortRangeEnforced(lo, hi) == hi - lo # 0

\* A range whose lower bound exceeds its upper bound is a configuration error.
PortRangeValid(lo, hi) == ~(lo > hi)

\* The range is checked once at startup.
validate_port_range ==
    /\ port_check = "unchecked"
    /\ port_check' = IF PortRangeValid(port_lower, port_upper) THEN "ok" ELSE "rejected"
    /\ UNCHANGED <<impersonation_enabled, gateway_user, unauthorized_users,
                   authorized_users, decision, max_kernels_per_user, ledger, requests,
                   port_lower, port_upper, port>>
    /\ UNCHANGED <<pc, init_vars, loop_vars, warnings, tunable_vars>>

\* A port is selected for a session: any port of an enforced range, and an
\* unconstrained port (0: left to the system) otherwise.
select_port ==
    /\ port_check = "ok"
    /\ IF PortRangeEnforced(port_lower, port_upper)
       THEN \E p \in port_lower..port_upper :
                port' = Some([constrained |-> TRUE, number |-> p])
       ELSE port' = Some([constrained |-> FALSE, number |-> 0])
    /\ UNCHANGED <<impersonation_enabled, gateway_user, unauthorized_users,
                   authorized_users, decision, max_kernels_per_user, ledger, requests,
                   port_lower, port_upper, port_check>>
    /\ UNCHANGED <<pc, init_vars, loop_vars, warnings, tunable_vars>>

\* Every range "lower..upper" with bounds up to MaxPort.
PortInit ==
    /\ Unconstructed
    /\ prespawn_count = None
    /\ max_kernels = None
    /\ has_culler = TRUE
    /\ persisted = <<>>
    /\ TunablesIdle
    /\ impersonation_enabled = FALSE
    /\ gateway_user = "alice"
    /\ unauthorized_users = {"root"}
    /\ authorized_users = {}
    /\ decision = None
    /\ max_kernels_per_user = max_kernels_per_user_default_value
    /\ ledger = [u \in KernelUsers |-> 0]
    /\ requests = <<>>
    /\ port_lower \in 0..MaxPort
    /\ port_upper \in 0..MaxPort
    /\ port_check = "unchecked"
    /\ port = None

PortNext == validate_port_range \/ select_port

SpecPorts == PortInit /\ [][PortNext]_vars

C2_HandlerOnlyEnqueues ==
    [][_signal_stop => /\ io_loop' = io_loop
                       /\ http_server' = http_server
                       /\ Len(callbacks') = Len(callbacks) + 1]_vars

\* C3: when a terminate signal arrives while the gateway is serving, the
\* running loop is stopped by the terminate path only once the listener has
\* been stopped.
C3_TerminateStopsListenerFirst ==
    [][(Serving /\ _signal_stop /\ Val(io_loop).running /\ ~Val(io_loop').running)
          => http_server = "stopped"]_vars

\* C4: initialization builds its subsystems in dependency order: the kernel
\* spec manager, the kernel manager over it, the kernel session manager over
\* the kernel manager, session recovery, the personality, and last the
\* personality's init_configurables(); nothing of a later step exists before
\* the earlier steps are complete.
C4_InitOrder ==
    /\ kernel_manager # None =>
          /\ kernel_spec_manager # None
          /\ Val(kernel_manager).kernel_spec_manager = kernel_spec_manager
    /\ kernel_session_manager # None =>
          /\ kernel_manager # None
          /\ Val(kernel_session_manager).kernel_manager = kernel_manager
    /\ sessions_started => kernel_session_manager # None
    /\ personality # None => sessions_started
    /\ personality_inited => personality # None
    /\ (web_app # None \/ http_server # "none" \/ io_loop # None) => personality_inited

C4_AllConstructed == personality_inited /\ pc = "init_webapp" /\ restored # {}

\* C5: session recovery is over before the gateway serves: the listener is
\* not open and the loop does not run until start_sessions() has returned.
C5_RecoveryBeforeServing ==
    (Serving \/ http_server # "none" \/ io_loop # None) => sessions_started

C5_ServingAfterRecovery == Serving /\ sessions_started /\ restored # {}

\* max_kernels is set and prespawn_count is above it.
PrespawnExceedsMax ==
    /\ prespawn_count # None
    /\ max_kernels # None
    /\ Val(prespawn_count) > Val(max_kernels)

\* C6: whenever the prespawn count exceeds the max-kernels limit,
\* initialization fails before the personality step and before a listener is
\* opened; the gateway never serves with prespawn count > max-kernels.
C6_PrespawnOverMaxIsFatal ==
    PrespawnExceedsMax => /\ personality = None
                          /\ http_server = "none"
                          /\ ~Serving

\* C7 (as stated): the prespawn check runs before session recovery, so a
\* configuration contradiction ends startup with no persisted session
\* re-attached.
C7_ValidationBeforeRecovery ==
    error = "prespawn" => (~sessions_started /\ restored = {})

\* C7 (amended): the prespawn check runs after session recovery has returned
\* and before the personality step, so a configuration contradiction ends
\* startup after the reachable persisted sessions have been re-attached.
C7_ValidationAfterRecovery ==
    /\ (validated \/ error = "prespawn") =>
          /\ sessions_started
          /\ restored = {i \in DOMAIN persisted : persisted[i]}
    /\ personality # None => validated
    /\ error = "prespawn" => personality = None

C7_RejectedAfterReattach == error = "prespawn" /\ pc = "failed" /\ restored # {}

\* Every step of initialization has completed.
Initialized ==
    /\ kernel_spec_manager # None
    /\ kernel_manager # None
    /\ session_manager # None
    /\ kernel_session_manager # None
    /\ sessions_started
    /\ validated
    /\ personality # None
    /\ personality_inited
    /\ web_app # None
    /\ http_server # "none"

InitSteps == {"kernel_spec_manager", "kernel_manager", "session_manager",
              "kernel_session_manager", "prespawn", "personality", "personality_init",
              "init_webapp", "init_http_server"}

\* C8: a failure of an initialization step is fatal: the gateway serves only
\* when every step has completed without error, and after a failed step the
\* process has ended without an event loop.
C8_ServingImpliesInitialized ==
    /\ Serving => (Initialized /\ error = "")
    /\ error \in InitSteps => (pc = "failed" /\ io_loop = None /\ ~Initialized)
    /\ io_loop # None => Initialized

C8_FailedPartway ==
    pc = "failed" /\ error = "personality_init" /\ personality # None /\ io_loop = None

\* C9: session recovery is best-effort: every persisted record whose process
\* is reachable is re-attached, every other record is dropped, and a dropped
\* record does not fail startup.
C9_RecoveryBestEffort ==
    /\ sessions_started =>
          /\ restored = {i \in DOMAIN persisted : persisted[i]}
          /\ dropped = {i \in DOMAIN persisted : ~persisted[i]}
    /\ ~sessions_started => (restored = {} /\ dropped = {})
    /\ pc = "validate" => (sessions_started /\ error = "")

C9_ServingAfterDrop == Serving /\ restored # {} /\ dropped # {} /\ error = ""

\* ---- properties of the tunables ----------------------------------------------
\* The value a trait declares for a tunable that is neither configured nor
\* given by the environment (lines 48, 59, 123, 135, 151).
BuiltinDefault(name) ==
    CASE name = "remote_hosts" -> <<remote_hosts_default_value>>
      [] name = "yarn_endpoint" -> None
      [] name = "unauthorized_users" -> {unauthorized_users_default_value}
      [] name = "authorized_users" -> {}
      [] name = "port_range" -> port_range_default_value

RECURSIVE Join(_)
Join(list) ==
    IF Len(list) = 0 THEN <<>>
    ELSE IF Len(list) = 1 THEN list[1]
    ELSE list[1] \o <<",">> \o Join(Tail(list))

CommaFree(str) == \A i \in 1..Len(str) : str[i] # ","

\* list is str cut at its commas.
IsSplitOf(list, str) ==
    /\ Len(list) >= 1
    /\ \A i \in 1..Len(list) : CommaFree(list[i])
    /\ Join(list) = str

\* The maximal comma-free pieces of str, empty pieces included.
Pieces(str) ==
    {SubSeq(str, i, j) : <<i, j>> \in
        {b \in (1..(Len(str) + 1)) \X (0..Len(str)) :
            /\ b[2] >= b[1] - 1
            /\ (b[1] = 1 \/ str[b[1] - 1] = ",")
            /\ (b[2] = Len(str) \/ str[b[2] + 1] = ",")
            /\ \A k \in b[1]..b[2] : str[k] # ","}}

\* value is what the environment string str gives the tunable.
FromEnvironment(name, value, str) ==
    CASE name = "remote_hosts" -> IsSplitOf(value, str)
      [] name \in SetTraits -> value = Pieces(str)
      [] name = "yarn_endpoint" -> value = Some(str)
      [] name = "port_range" -> value = str

SpellsTrue(str) ==
    /\ Len(str) = 4
    /\ str[1] \in {"t", "T"}
    /\ str[2] \in {"r", "R"}
    /\ str[3] \in {"u", "U"}
    /\ str[4] \in {"e", "E"}

\* C11: for both boolean tunables and every environment string, the resolved
\* value is true iff the string is "true" in any mix of cases; every other
\* string, "false", "0" and the empty string included, gives false.
C11_TrueIffSpelledTrue ==
    (resolve_done /\ override = None /\ env # None) =>
        (resolved <=> SpellsTrue(Val(env)))

\* ---- C12 ------------------------------------------------------------------
\* The decision on a user and the two sets is the one the rule gives.
Authorized(deny, allow, user) == user \notin deny /\ (allow = {} \/ user \in allow)

\* C12: a launch request is accepted if and only if the user is not in the deny
\* set and the allow set is empty or contains the user; a user in both sets is
\* rejected; and taking the decision changes neither set.
C12_AuthorizeIffNotDeniedAndAllowed ==
    /\ [](decision # None =>
            /\ (Val(decision).result = "Accept") <=>
                   Authorized(unauthorized_users, authorized_users, Val(decision).user)
            /\ (Val(decision).user \in unauthorized_users \cap authorized_users) =>
                   Val(decision).result = "Reject")
    /\ [][UNCHANGED <<unauthorized_users, authorized_users>>]_vars

\* C12 witness: a user in both sets has been rejected.
C12_DenyTakesPrecedence ==
    /\ decision = Some([user |-> "root", result |-> "Reject"])
    /\ "root" \in unauthorized_users
    /\ "root" \in authorized_users

\* ---- C13 ------------------------------------------------------------------
\* The launch requests of a user that hold an acquisition.
Live(u) == {r \in DOMAIN requests : requests[r].user = u /\ requests[r].state = "live"}

\* C13: under every interleaving of tryAcquire and release, the ledger entry of
\* a user is the number of that user's live acquisitions, it is never negative,
\* with a limit >= 0 it never exceeds the limit, and with the limit -1 no
\* request is rejected.
C13_QuotaNeverExceeded ==
    /\ \A u \in KernelUsers :
         /\ ledger[u] = Cardinality(Live(u))
         /\ ledger[u] >= 0
         /\ max_kernels_per_user >= 0 => Cardinality(Live(u)) <= max_kernels_per_user
    /\ max_kernels_per_user = -1 =>
         \A r \in DOMAIN requests : requests[r].state # "rejected"

\* C13 witness: with a limit of 2, bob holds two kernels and a third request of
\* bob was rejected.
C13_ThirdRequestRejected ==
    /\ max_kernels_per_user = 2
    /\ ledger["bob"] = 2
    /\ \E r \in DOMAIN requests : requests[r].user = "bob" /\ requests[r].state = "rejected"

\* ---- C14 ------------------------------------------------------------------
\* A checked range is rejected exactly when its lower bound exceeds its upper
\* bound, and a port selected under enforcement lies inside the range.
PortRangeChecked ==
    /\ port_check # "unchecked" => (port_check = "rejected" <=> port_lower > port_upper)
    /\ port # None =>
         /\ port_check = "ok"
         /\ Val(port).constrained => Val(port).number \in port_lower..port_upper

\* C14 as stated: enforcement is disabled if and only if lower = upper = 0, so
\* every other range with lower <= upper (33245..33245 included) yields a port
\* inside the range, and a range with lower > upper is rejected at startup.
C14_DisabledIffZeroZero ==
    /\ PortRangeChecked
    /\ port # None => (~Val(port).constrained <=> (port_lower = 0 /\ port_upper = 0))

\* C14 amended: enforcement is disabled if and only if lower = upper (a range
\* of zero, 0..0 or 33245..33245 alike), which yields an unconstrained port;
\* a range with lower < upper yields a port inside the range, and a range with
\* lower > upper is rejected at startup.
C14_DisabledIffRangeOfZero ==
    /\ PortRangeChecked
    /\ port # None => (~Val(port).constrained <=> port_lower = port_upper)

\* C14 witness: a non-zero range of zero yielded an unconstrained port.
C14_SinglePortRangeUnconstrained ==
    /\ port_lower = 1
    /\ port_upper = 1
    /\ port = Some([constrained |-> FALSE, number |-> 0])

\* ---- C15 ------------------------------------------------------------------
\* C15: an interrupt that arrives while the loop runs is caught; once it has
\* been logged SIGINT is ignored, so every later interrupt changes nothing, no
\* second teardown is made, and the stop goes on through the finally block to
\* the single shutdown().
C15_InterruptLoggedAndRearmed ==
    /\ []("Interrupted" \in warnings =>
            /\ sigint = "ignore"
            /\ error = ""
            /\ pc \in {"finally", "shutdown", "done"}
            /\ shutdowns = IF pc = "finally" THEN 0 ELSE 1)
    /\ [][(Serving /\ sigint = "default" /\ pc' = "except") =>
             UNCHANGED <<error, warnings, shutdowns, http_server>>]_vars
    /\ [][("Interrupted" \in warnings /\ swallowed' # swallowed) =>
             UNCHANGED <<pc, error, init_vars, warnings, http_server, io_loop, callbacks,
                         ncallbacks, sighup, sigterm, sigint, stop_calls, http_stops,
                         loop_stops, stop_cause, hangups, shutdowns>>]_vars

\* C15 witness: a second interrupt was swallowed and the stop completed with
\* one shutdown().
C15_SecondInterruptSwallowed ==
    /\ "Interrupted" \in warnings
    /\ swallowed = 1
    /\ pc = "done"
    /\ shutdowns = 1

\* ---- C16 ------------------------------------------------------------------
\* C16: once start() has installed the handlers SIGHUP is ignored, and a SIGHUP
\* delivered from then on changes neither the position in the lifecycle nor
\* the HTTP server nor the loop, however many are delivered.
C16_HangupIsNoOp ==
    /\ [](Started => sighup = "ignore")
    /\ [][(sighup = "ignore" /\ hangups' # hangups) =>
             UNCHANGED <<pc, error, init_vars, warnings, http_server, io_loop, callbacks,
                         ncallbacks, sighup, sigterm, sigint, stop_calls, http_stops,
                         loop_stops, stop_cause, shutdowns, swallowed>>]_vars

\* C16 witness: SIGHUP was delivered to the serving gateway.
C16_HangupWhileServing == hangups >= 1 /\ Serving /\ sighup = "ignore"

\* ---- C17 ------------------------------------------------------------------
\* C17: once start() has made the impersonation check, the warning was issued
\* if and only if impersonation is enabled and the gateway's own user, compared
\* case-sensitively, is not in the deny set; and the check raises nothing.
C17_WarnsIffNotDenied ==
    /\ io_loop # None =>
         (("impersonation" \in warnings) <=>
             (impersonation_enabled /\ gateway_user \notin unauthorized_users))
    /\ error # "start"

\* ---- C18 ------------------------------------------------------------------
\* The position of a lifecycle state in the chain.
Rank(state) ==
    CASE state = "Uninitialized" -> 0
      [] state = "Initializing" -> 1
      [] state = "Serving" -> 2
      [] state = "StopRequested" -> 3
      [] state = "Stopped" -> 4

C19_MissingCullerNotFatal ==
    /\ [](error # "detect_culler")
    /\ [](session_manager # None => (("no_culling" \in warnings) <=> ~has_culler))
    /\ [][(pc = "detect_culler" /\ pc' \notin {"detect_culler", "killed"}) =>
             /\ pc' = "session_manager"
             /\ UNCHANGED <<error, init_vars, loop_vars, config_vars>>]_vars

\* C19 witness: the gateway serves, fully initialized, with a kernel manager
\* that cannot cull and the warning logged.
C19_ServingWithoutCuller ==
    /\ Serving
    /\ ~has_culler
    /\ "no_culling" \in warnings
    /\ sessions_started
    /\ personality_inited

\* ---- C20 ------------------------------------------------------------------
\* C20: shutdown() is never executed while the main thread is still inside the
\* try block of start(), it is executed at most once, and once the loop has
\* been left and the process has ended, whatever ended the loop, it has been
\* executed exactly once.
C20_ShutdownExactlyOnce ==
    /\ (InTry \/ pc = "except") => shutdowns = 0
    /\ shutdowns <= 1
    /\ (io_loop # None /\ pc \in {"done", "failed"}) => shutdowns = 1

====
